---- MODULE Spec2Model ----
(***************************************************************************)
(* Lively Marketplace (lively_marketplace_app.py): the account ledger, the *)
(* product and debt settlements and the dynamic rate adjustment.           *)
(*                                                                         *)
(* Money is integer cents.  A decimal typed into a form is modelled as an  *)
(* integer number of thousandths of a dollar ("mills"), so that the        *)
(* conversion int(Decimal(s) * 100) truncates as the code does.  Rates are *)
(* integers in units of 0.0001 (0.10 = 1000, 1.0 = 10000).                 *)
(***************************************************************************)
EXTENDS Integers, Sequences, FiniteSets, TLC

\* ---------------------------------------------------------------- bounds
MaxUsers     == 3
MaxProducts  == 1
MaxOrders    == 1
MaxDebts     == 1
MaxPositions == 2
MaxPayouts   == 1
MaxTopups    == 1
MaxEvents    == 2
MaxRows      == 3

\* ------------------------------------------------------ program constants
PLATFORM_COMMISSION_PERCENT == 5
RegisterCredit == 1000
AdminCredit    == 100000
AdminId        == 1
NumThreads     == 2
RateCap        == 10000
RateFloor      == 1

UserIds == 1..MaxUsers

\* ------------------------------------------------------------ form inputs
\* A text field: either not a number, or a decimal given in mills.
Dec(m)   == [valid |-> TRUE,  mills |-> m]
BadInput == [valid |-> FALSE, mills |-> 0]

\* int(dec * 100): Python's int() truncates toward zero.
ToCents(dec) ==
  IF dec.mills >= 0 THEN dec.mills \div 10 ELSE -((-dec.mills) \div 10)

BuyAmountInputs    == {BadInput, Dec(-20000), Dec(0), Dec(5009), Dec(25000)}
PriceInputs        == {BadInput, Dec(12000), Dec(500), Dec(-20000)}
TopupInputs        == {BadInput, Dec(0), Dec(5000)}
PayoutInputs       == {BadInput, Dec(-20000), Dec(5000)}
\* (principal, rate, target) as submitted to /debt/new; a blank target
\* field is modelled by blank |-> TRUE.
DebtForm(p, r, blank, t) == [principal |-> p, rate |-> r, blank |-> blank, target |-> t]
DebtInputs ==
  { DebtForm(Dec(1000000), 1000, TRUE,  BadInput),
    DebtForm(Dec(20000),   9800, TRUE,  BadInput),
    DebtForm(Dec(10000),   1000, FALSE, Dec(0)),
    DebtForm(Dec(10000),   1000, FALSE, Dec(-10000)),
    DebtForm(BadInput,     1000, TRUE,  BadInput) }

\* ------------------------------------------------------------------ state
VARIABLES
  balance,    \* User.balance_cents, a function on the registered user ids
  products,   \* Product rows, indexed by id
  orders,     \* Order rows
  debts,      \* DebtListing rows, indexed by id
  positions,  \* DebtPosition rows
  payouts,    \* PayoutRequest rows
  topups,     \* number of simulated top-ups credited so far
  flash,      \* the message flashed by the request handled last (session flash)
  events,     \* ids of the webhook events delivered so far, in order
  external_cents, \* cents credited from outside: seed, registrations, top-ups, webhook
  probe,      \* inputs and results of the rate adjustment applied on its own
  thr         \* per worker thread: the request in flight and its session

vars == <<balance, products, orders, debts, positions, payouts, topups, flash,
          events, external_cents, probe, thr>>

Registered == DOMAIN balance

\* rows written so far (the simulated top-ups write none and are counted)
Rows == Len(products) + Len(orders) + Len(debts) + Len(positions)
          + Len(payouts) + topups + Len(events)
HasRoom(table, cap) == Len(table) < cap /\ Rows < MaxRows

\* --------------------------------------------------------------- helpers
\* Decimal.quantize(Decimal('1.')) under the default context rounds half
\* to even; n is the commission in hundredths of a cent.
RoundHalfEven(n) ==
  LET q == n \div 100
      r == n % 100
  IN  IF r < 50 THEN q
      ELSE IF r > 50 THEN q + 1
      ELSE IF q % 2 = 0 THEN q ELSE q + 1

calculate_commission_cents(amount_cents) ==
  RoundHalfEven(amount_cents * PLATFORM_COMMISSION_PERCENT)

\* (variant: the seller is credited the full amount)
seller_receive_full(amount) == amount

\* seller_receive = amount - commission
seller_receive(amount) == amount - calculate_commission_cents(amount)

\* (variant: the guard only looks for an empty balance)
insufficient_empty(bal, u, cents) == bal[u] <= 0

\* the guard  g.user.balance_cents < cents
insufficient(bal, u, cents) == bal[u] < cents

\* (variant: no ownership check, as in debt_buy)
own_product_unchecked(p, u) == FALSE

\* the guard  p.seller_id == g.user.id
own_product(p, u) == p.seller_id = u

\* (variant: the debit is computed but not stored)
debit_dropped(bal, u, cents) == bal

\* User.credit / User.debit on the balance table
credit(bal, u, cents) == [bal EXCEPT ![u] = @ + cents]
debit(bal, u, cents)  == [bal EXCEPT ![u] = @ - cents]

\* ratio < k/100 for ratio = total / target (Python true division, target
\* nonzero).  With cents below 2^31 the float comparison agrees with the
\* exact one.
RatioLess(total, target, k) ==
  IF target > 0 THEN 100 * total < k * target
                ELSE 100 * total > k * target

Min(a, b) == IF a < b THEN a ELSE b
Max(a, b) == IF a > b THEN a ELSE b

\* (variant: the milder step table, clamped on both sides)
NextRate_mild(rate, total, target_amount) ==
  LET target == IF target_amount = 0 THEN 1 ELSE target_amount
      c(r)   == Max(RateFloor, Min(RateCap, r))
  IN  IF RatioLess(total, target, 1)        THEN c(rate + 2000)
      ELSE IF RatioLess(total, target, 5)   THEN c(rate + 1200)
      ELSE IF RatioLess(total, target, 20)  THEN c(rate + 600)
      ELSE IF RatioLess(total, target, 50)  THEN c(rate + 200)
      ELSE IF RatioLess(total, target, 100) THEN c(rate - 300)
      ELSE IF RatioLess(total, target, 150) THEN c(rate - 1200)
      ELSE c(rate - 3000)

\* the dynamic rate adjustment of debt_buy
NextRate(rate, total, target_amount) ==
  LET target == IF target_amount = 0 THEN 1 ELSE target_amount
  IN  IF RatioLess(total, target, 1)        THEN Min(RateCap, rate + 8000)
      ELSE IF RatioLess(total, target, 5)   THEN Min(RateCap, rate + 4000)
      ELSE IF RatioLess(total, target, 20)  THEN Min(RateCap, rate + 1500)
      ELSE IF RatioLess(total, target, 50)  THEN Max(RateFloor, rate + 500)
      ELSE IF RatioLess(total, target, 100) THEN Max(RateFloor, rate - 500)
      ELSE IF RatioLess(total, target, 150) THEN Max(RateFloor, rate - 2500)
      ELSE Max(RateFloor, rate - 5000)

Threads == 1..NumThreads

\* a worker thread with no request: an empty session
IdleThread ==
  [pc |-> "idle", op |-> "none", user |-> 0, id |-> 0, cents |-> 0,
   ubal |-> 0, seller |-> 0, total |-> 0, rate |-> 0, target |-> 0, sbal |-> 0,
   locked |-> FALSE, result |-> ""]

NoProbe == [rate |-> 0, target |-> 0, total_a |-> 0, total_b |-> 0,
            done |-> FALSE, rate_a |-> 0, rate_b |-> 0]

\* ------------------------------------------------------------------- init
\* After import: the tables exist and the admin user holds its seed.
Init ==
  /\ balance   = [u \in {AdminId} |-> AdminCredit]
  /\ products  = <<>>
  /\ orders    = <<>>
  /\ debts     = <<>>
  /\ positions = <<>>
  /\ payouts   = <<>>
  /\ topups    = 0
  /\ flash     = ""
  /\ events    = <<>>
  /\ external_cents = AdminCredit
  /\ probe     = NoProbe
  /\ thr       = [t \in Threads |-> IdleThread]

\* ---------------------------------------------------------------- actions
\* ids are handed out in order: the k-th user to register gets id k
register(u) ==
  /\ u <= Cardinality(Registered) + 1
  /\ IF u \in Registered
       THEN /\ flash' = "username taken"
            /\ UNCHANGED <<balance, external_cents>>
       ELSE /\ balance' = [v \in Registered \cup {u} |->
                             IF v = u THEN RegisterCredit ELSE balance[v]]
            /\ external_cents' = external_cents + RegisterCredit
            /\ flash' = "registered"
  /\ UNCHANGED <<products, orders, debts, positions, payouts, topups, events, probe, thr>>

\* /stripe/create-checkout-session without a Stripe key: simulated top-up
stripe_create_checkout(u, amt) ==
  /\ u \in Registered
  /\ topups < MaxTopups /\ Rows < MaxRows
  /\ IF ~amt.valid \/ amt.mills <= 0
       THEN /\ flash' = "Invalid amount"
            /\ UNCHANGED <<balance, topups, external_cents>>
       ELSE /\ balance' = credit(balance, u, ToCents(amt))
            /\ topups' = topups + 1
            /\ external_cents' = external_cents + ToCents(amt)
            /\ flash' = "Simulated top-up"
  /\ UNCHANGED <<products, orders, debts, positions, payouts, events, probe, thr>>

product_new(u, price) ==
  /\ u \in Registered
  /\ HasRoom(products, MaxProducts)
  /\ IF ~price.valid
       THEN /\ flash' = "Invalid price"
            /\ UNCHANGED products
       ELSE /\ products' = Append(products, [seller_id |-> u, price_cents |-> ToCents(price)])
            /\ flash' = "Product listed"
  /\ UNCHANGED <<balance, orders, debts, positions, payouts, topups, events, external_cents, probe, thr>>

product_buy(u, product_id) ==
  /\ u \in Registered
  /\ product_id \in DOMAIN products
  /\ HasRoom(orders, MaxOrders)
  /\ LET p              == products[product_id]
         amount         == p.price_cents
         commission     == calculate_commission_cents(amount)
     IN  /\ IF own_product(p, u)
              THEN /\ flash' = "Cannot buy your own product"
                   /\ UNCHANGED <<balance, orders>>
            ELSE IF insufficient(balance, u, amount)
              THEN /\ flash' = "Insufficient balance"
                   /\ UNCHANGED <<balance, orders>>
            ELSE /\ balance' = credit(debit(balance, u, amount), p.seller_id, seller_receive(amount))
                 /\ orders' = Append(orders, [buyer_id |-> u, product_id |-> product_id,
                                              amount_cents |-> amount,
                                              commission_cents |-> commission])
                 /\ flash' = "Purchase complete"
  /\ UNCHANGED <<products, debts, positions, payouts, topups, events, external_cents, probe, thr>>

debt_new(u, form) ==
  /\ u \in Registered
  /\ HasRoom(debts, MaxDebts)
  /\ IF ~form.principal.valid \/ (~form.blank /\ ~form.target.valid)
       THEN /\ flash' = "Invalid input"
            /\ UNCHANGED debts
       ELSE LET pdec == form.principal
                targ == IF form.blank THEN pdec ELSE form.target
            IN  /\ debts' = Append(debts,
                     [seller_id             |-> u,
                      principal_cents       |-> ToCents(pdec),
                      interest_rate_percent |-> form.rate,
                      current_rate_percent  |-> form.rate,
                      target_amount_cents   |-> ToCents(targ),
                      total_invested_cents  |-> 0])
                /\ flash' = "Debt listed"
  /\ UNCHANGED <<balance, products, orders, positions, payouts, topups, events, external_cents, probe, thr>>

debt_buy(u, debt_id, amt) ==
  /\ u \in Registered
  /\ debt_id \in DOMAIN debts
  /\ HasRoom(positions, MaxPositions)
  /\ IF ~amt.valid
       THEN /\ flash' = "Invalid amount"
            /\ UNCHANGED <<balance, debts, positions>>
       ELSE LET d              == debts[debt_id]
                cents          == ToCents(amt)
                total          == d.total_invested_cents + cents
            IN  /\ IF insufficient(balance, u, cents)
                     THEN /\ flash' = "Insufficient balance"
                          /\ UNCHANGED <<balance, debts, positions>>
                     ELSE /\ balance' = credit(debit(balance, u, cents), d.seller_id, seller_receive(cents))
                          /\ positions' = Append(positions,
                               [owner_id |-> u, debt_id |-> debt_id, principal_cents |-> cents])
                          /\ debts' = [debts EXCEPT ![debt_id] =
                               [@ EXCEPT !.total_invested_cents = total,
                                         !.current_rate_percent =
                                            NextRate(d.current_rate_percent, total,
                                                     d.target_amount_cents)]]
                          /\ flash' = "Debt purchased"
  /\ UNCHANGED <<products, orders, payouts, topups, events, external_cents, probe, thr>>

request_payout(u, amt) ==
  /\ u \in Registered
  /\ HasRoom(payouts, MaxPayouts)
  /\ IF ~amt.valid
       THEN /\ flash' = "Invalid amount"
            /\ UNCHANGED <<balance, payouts>>
       ELSE LET cents == ToCents(amt)
            IN  /\ IF insufficient(balance, u, cents)
                     THEN /\ flash' = "Insufficient balance"
                          /\ UNCHANGED <<balance, payouts>>
                     ELSE /\ balance' = debit(balance, u, cents)
                          /\ payouts' = Append(payouts,
                               [user_id |-> u, amount_cents |-> cents, paid |-> FALSE])
                          /\ flash' = "Payout requested"
  /\ UNCHANGED <<products, orders, debts, positions, topups, events, external_cents, probe, thr>>

\* a checkout event as posted to /stripe/webhook; client_reference_id 0
\* stands for an absent one
WebhookEvent(id, type, ref, amount) ==
  [id |-> id, type |-> type, client_reference_id |-> ref, amount_total |-> amount]
WebhookInputs ==
  { WebhookEvent(1, "checkout.session.completed", 2, 700),
    WebhookEvent(2, "checkout.session.async_payment_succeeded", 1, 300),
    WebhookEvent(3, "payment_intent.created", 2, 700),
    WebhookEvent(4, "checkout.session.completed", 0, 700) }

stripe_webhook(event) ==
  /\ HasRoom(events, MaxEvents)
  /\ events' = Append(events, event.id)
  /\ IF /\ event.type \in {"checkout.session.completed",
                           "checkout.session.async_payment_succeeded"}
        /\ event.client_reference_id # 0
        /\ event.client_reference_id \in Registered
       THEN /\ balance' = credit(balance, event.client_reference_id, event.amount_total)
            /\ external_cents' = external_cents + event.amount_total
       ELSE UNCHANGED <<balance, external_cents>>
  /\ UNCHANGED <<products, orders, debts, positions, payouts, topups, flash, probe, thr>>

admin_payout(u, pay_id) ==
  /\ u \in Registered
  /\ pay_id \in DOMAIN payouts
  /\ IF u # AdminId
       THEN /\ flash' = "Admin required"
            /\ UNCHANGED payouts
       ELSE /\ payouts' = [payouts EXCEPT ![pay_id].paid = TRUE]
            /\ flash' = "Marked paid"
  /\ UNCHANGED <<balance, products, orders, debts, positions, topups, events, external_cents, probe, thr>>

Next ==
  \/ \E u \in UserIds : register(u)
  \/ \E u \in UserIds, amt \in TopupInputs : stripe_create_checkout(u, amt)
  \/ \E u \in UserIds, price \in PriceInputs : product_new(u, price)
  \/ \E u \in UserIds, id \in 1..MaxProducts : product_buy(u, id)
  \/ \E u \in UserIds, form \in DebtInputs : debt_new(u, form)
  \/ \E u \in UserIds, id \in 1..MaxDebts, amt \in BuyAmountInputs : debt_buy(u, id, amt)
  \/ \E u \in UserIds, amt \in PayoutInputs : request_payout(u, amt)
  \/ \E u \in UserIds, id \in 1..MaxPayouts : admin_payout(u, id)
  \/ \E event \in WebhookInputs : stripe_webhook(event)

Spec == Init /\ [][Next]_vars

\* ------------------------------------------- the rate adjustment on its own
ProbeRates   == {1, 500, 1000, 5000, 9000, 9500, 9501, 9800, 10000}
ProbeTargets == {0, 1000, 100000}
ProbeTotals  == {0, 1, 9, 10, 49, 50, 199, 200, 499, 500, 999, 1000, 1499, 1500, 3000}

RateInit ==
  /\ balance   = [u \in {AdminId} |-> AdminCredit]
  /\ products  = <<>>
  /\ orders    = <<>>
  /\ debts     = <<>>
  /\ positions = <<>>
  /\ payouts   = <<>>
  /\ topups    = 0
  /\ flash     = ""
  /\ events    = <<>>
  /\ external_cents = AdminCredit
  /\ probe \in [rate : ProbeRates, target : ProbeTargets,
                total_a : ProbeTotals, total_b : ProbeTotals,
                done : {FALSE}, rate_a : {0}, rate_b : {0}]
  /\ thr       = [t \in Threads |-> IdleThread]

\* lines 466-482 applied to the same current rate and target for two totals
rate_adjust ==
  /\ ~probe.done
  /\ probe' = [probe EXCEPT
       !.done   = TRUE,
       !.rate_a = NextRate(probe.rate, probe.total_a, probe.target),
       !.rate_b = NextRate(probe.rate, probe.total_b, probe.target)]
  /\ UNCHANGED <<balance, products, orders, debts, positions, payouts, topups, flash,
                 events, external_cents, thr>>

SpecRate == RateInit /\ [][rate_adjust]_vars

\* ----------------------------------------- two worker threads, one database
\* gunicorn runs the app with --threads=2.  Each request has its own
\* session: rows are read into it when first queried, changes are kept in
\* it, written as UPDATE ... SET column = <value computed in the session>
\* and made visible to other sessions by db.session.commit().  The tables
\* (balance, products, orders, debts, positions, payouts) hold the
\* committed rows.  An UPDATE locks its row until the transaction ends.
ConcAmountInputs == {Dec(6000), Dec(4000)}
ConcRequest(op, u, id, amt) == [op |-> op, user |-> u, id |-> id, amt |-> amt]
ConcRequests ==
  {ConcRequest("debt_buy", u, 1, amt) : u \in UserIds, amt \in ConcAmountInputs}
    \cup {ConcRequest("product_buy", u, 1, Dec(0)) : u \in UserIds}
    \cup {ConcRequest("request_payout", u, 0, Dec(6000)) : u \in UserIds}

\* three users, a listing of user 2 (1000.00 at 0.10) and a product of
\* user 2 (6.00), nothing bought yet
ConcInit ==
  /\ balance   = [u \in UserIds |-> IF u = AdminId THEN AdminCredit ELSE RegisterCredit]
  /\ products  = <<[seller_id |-> 2, price_cents |-> ToCents(Dec(6000))]>>
  /\ orders    = <<>>
  /\ debts     = <<[seller_id             |-> 2,
                    principal_cents       |-> ToCents(Dec(1000000)),
                    interest_rate_percent |-> 1000,
                    current_rate_percent  |-> 1000,
                    target_amount_cents   |-> ToCents(Dec(1000000)),
                    total_invested_cents  |-> 0]>>
  /\ positions = <<>>
  /\ payouts   = <<>>
  /\ topups    = 0
  /\ flash     = ""
  /\ events    = <<>>
  /\ external_cents = AdminCredit + (MaxUsers - 1) * RegisterCredit
  /\ probe     = NoProbe
  /\ thr       = [t \in Threads |-> IdleThread]

committed == <<balance, products, orders, debts, positions, payouts>>
session_only == <<topups, flash, events, external_cents, probe>>

LockedByOther(t, u) ==
  \E o \in Threads \ {t} : thr[o].locked /\ thr[o].user = u

\* the balance the session of t holds for its own user
SessionBalance(t) == [u \in {thr[t].user} |-> thr[t].ubal]

\* before_request: load_user reads the acting user's row
load_user(t, request) ==
  /\ thr[t].pc = "idle"
  /\ request.user \in Registered
  /\ thr' = [thr EXCEPT ![t] =
       [@ EXCEPT !.pc = "user", !.op = request.op, !.user = request.user,
                 !.id = request.id, !.cents = ToCents(request.amt),
                 !.ubal = balance[request.user]]]
  /\ UNCHANGED <<committed, session_only>>

\* get_or_404: the listing or the product is read
load_row(t) ==
  /\ thr[t].pc = "user"
  /\ \/ /\ thr[t].op = "debt_buy"
        /\ thr[t].id \in DOMAIN debts
        /\ LET d == debts[thr[t].id]
           IN  thr' = [thr EXCEPT ![t] =
                 [@ EXCEPT !.pc = "row", !.seller = d.seller_id,
                           !.total = d.total_invested_cents,
                           !.rate = d.current_rate_percent,
                           !.target = d.target_amount_cents]]
     \/ /\ thr[t].op = "product_buy"
        /\ thr[t].id \in DOMAIN products
        /\ LET p == products[thr[t].id]
           IN  thr' = [thr EXCEPT ![t] =
                 [@ EXCEPT !.pc = "row", !.seller = p.seller_id,
                           !.cents = p.price_cents]]
  /\ UNCHANGED <<committed, session_only>>

\* the guards of the handler, on the rows held by the session; the debit
\* that follows changes the session only
check(t) ==
  /\ \/ thr[t].pc = "row"
     \/ thr[t].pc = "user" /\ thr[t].op = "request_payout"
  /\ IF thr[t].op = "product_buy"
          /\ own_product([seller_id |-> thr[t].seller], thr[t].user)
       THEN thr' = [thr EXCEPT ![t] =
              [@ EXCEPT !.pc = "done", !.result = "Cannot buy your own product"]]
     ELSE IF insufficient(SessionBalance(t), thr[t].user, thr[t].cents)
       THEN thr' = [thr EXCEPT ![t] =
              [@ EXCEPT !.pc = "done", !.result = "Insufficient balance"]]
     ELSE thr' = [thr EXCEPT ![t] =
              [@ EXCEPT !.pc = IF thr[t].op = "request_payout" THEN "ready"
                               ELSE "debited",
                        !.ubal = debit(SessionBalance(t), thr[t].user, thr[t].cents)[thr[t].user]]]
  /\ UNCHANGED <<committed, session_only>>

\* (variant: the debit is committed on its own before the seller is read)
flush_committed(t) ==
  /\ thr[t].pc = "debited"
  /\ thr[t].seller # thr[t].user
  /\ ~LockedByOther(t, thr[t].user)
  /\ balance' = [balance EXCEPT ![thr[t].user] = thr[t].ubal]
  /\ thr' = [thr EXCEPT ![t] = [@ EXCEPT !.pc = "flushed"]]
  /\ UNCHANGED <<products, orders, debts, positions, payouts, session_only>>

\* User.query.get(seller_id) autoflushes first: the buyer's UPDATE (and the
\* INSERT of the position) are sent inside the open transaction
flush(t) ==
  /\ thr[t].pc = "debited"
  /\ thr[t].seller # thr[t].user
  /\ ~LockedByOther(t, thr[t].user)
  /\ thr' = [thr EXCEPT ![t] = [@ EXCEPT !.pc = "flushed", !.locked = TRUE]]
  /\ UNCHANGED <<committed, session_only>>

\* User.query.get(seller_id): the seller's row is read, or found in the
\* session when the seller is the acting user
load_seller(t) ==
  /\ \/ /\ thr[t].pc = "flushed"
        /\ thr' = [thr EXCEPT ![t] =
             [@ EXCEPT !.pc = "ready", !.sbal = balance[thr[t].seller]]]
     \/ /\ thr[t].pc = "debited"
        /\ thr[t].seller = thr[t].user
        /\ thr' = [thr EXCEPT ![t] = [@ EXCEPT !.pc = "ready"]]
  /\ UNCHANGED <<committed, session_only>>

\* the balances written by the commit of t
CommitBalance(t) ==
  LET u == thr[t].user
      s == thr[t].seller
  IN  IF thr[t].op = "request_payout"
        THEN [balance EXCEPT ![u] = thr[t].ubal]
      ELSE IF s = u
        THEN [balance EXCEPT ![u] =
                credit(SessionBalance(t), u, seller_receive(thr[t].cents))[u]]
      ELSE [balance EXCEPT
              ![u] = thr[t].ubal,
              ![s] = credit([v \in {s} |-> thr[t].sbal], s, seller_receive(thr[t].cents))[s]]

\* db.session.commit(): the remaining UPDATEs and INSERTs, then COMMIT
commit(t) ==
  /\ thr[t].pc = "ready"
  /\ ~LockedByOther(t, thr[t].user)
  /\ thr[t].op # "request_payout" => ~LockedByOther(t, thr[t].seller)
  /\ balance' = CommitBalance(t)
  /\ CASE thr[t].op = "debt_buy" ->
            LET total == thr[t].total + thr[t].cents
            IN  /\ positions' = Append(positions,
                      [owner_id |-> thr[t].user, debt_id |-> thr[t].id,
                       principal_cents |-> thr[t].cents])
                /\ debts' = [debts EXCEPT ![thr[t].id] =
                      [@ EXCEPT !.total_invested_cents = total,
                                !.current_rate_percent =
                                   NextRate(thr[t].rate, total, thr[t].target)]]
                /\ UNCHANGED <<orders, payouts>>
       [] thr[t].op = "product_buy" ->
            /\ orders' = Append(orders,
                 [buyer_id |-> thr[t].user, product_id |-> thr[t].id,
                  amount_cents |-> thr[t].cents,
                  commission_cents |-> calculate_commission_cents(thr[t].cents)])
            /\ UNCHANGED <<debts, positions, payouts>>
       [] thr[t].op = "request_payout" ->
            /\ payouts' = Append(payouts,
                 [user_id |-> thr[t].user, amount_cents |-> thr[t].cents, paid |-> FALSE])
            /\ UNCHANGED <<debts, positions, orders>>
  /\ thr' = [thr EXCEPT ![t] =
       [@ EXCEPT !.pc = "done", !.locked = FALSE,
                 !.result = CASE thr[t].op = "debt_buy" -> "Debt purchased"
                              [] thr[t].op = "product_buy" -> "Purchase complete"
                              [] thr[t].op = "request_payout" -> "Payout requested"]]
  /\ UNCHANGED <<products, session_only>>

\* the request dies before its commit (deadlock victim, lock timeout,
\* worker killed): the session is rolled back
abort(t) ==
  /\ thr[t].pc \in {"user", "row", "debited", "flushed", "ready"}
  /\ thr' = [thr EXCEPT ![t] =
       [@ EXCEPT !.pc = "failed", !.locked = FALSE, !.result = "error"]]
  /\ UNCHANGED <<committed, session_only>>

ConcNext ==
  \/ \E t \in Threads, request \in ConcRequests : load_user(t, request)
  \/ \E t \in Threads : load_row(t)
  \/ \E t \in Threads : check(t)
  \/ \E t \in Threads : flush(t)
  \/ \E t \in Threads : load_seller(t)
  \/ \E t \in Threads : commit(t)
  \/ \E t \in Threads : abort(t)

SpecConc == ConcInit /\ [][ConcNext]_vars

\* =================================================================== claims
InRange(rate) == RateFloor <= rate /\ rate <= RateCap

RECURSIVE SumPrincipal(_, _, _)
\* sum of principal_cents over the first n positions held on listing id
SumPrincipal(pos, id, n) ==
  IF n = 0 THEN 0
  ELSE SumPrincipal(pos, id, n - 1)
         + (IF pos[n].debt_id = id THEN pos[n].principal_cents ELSE 0)

\* buyer b pays amount to seller s: what b loses is what s gains plus the
\* commission, and nobody else's balance moves
Settled(b, s, amount) ==
  LET commission == calculate_commission_cents(amount)
  IN  /\ DOMAIN balance' = DOMAIN balance
      /\ \A v \in Registered \ {b, s} : balance'[v] = balance[v]
      /\ IF b = s
           THEN balance[b] - balance'[b] = commission
           ELSE /\ balance[b] - balance'[b] = amount
                /\ balance[b] - balance'[b] = (balance'[s] - balance[s]) + commission

\* C1: in every successful debt investment and product purchase the amount
\* debited from the buyer equals the amount credited to the seller plus the
\* commission of calculate_commission_cents.
C1_SettlementExact ==
  [][ /\ \A u \in UserIds, id \in 1..MaxDebts, amt \in BuyAmountInputs :
           (debt_buy(u, id, amt) /\ flash' = "Debt purchased")
             => Settled(u, debts[id].seller_id, ToCents(amt))
      /\ \A u \in UserIds, id \in 1..MaxProducts :
           (product_buy(u, id) /\ flash' = "Purchase complete")
             => Settled(u, products[id].seller_id, products[id].price_cents)
    ]_vars

\* an investment of a positive amount by somebody other than the seller has
\* just settled, with a commission that is not zero
C1_Witness ==
  /\ flash = "Debt purchased"
  /\ Len(positions) > 0
  /\ LET pos == positions[Len(positions)]
     IN  /\ pos.principal_cents > 0
         /\ pos.owner_id # debts[pos.debt_id].seller_id
         /\ calculate_commission_cents(pos.principal_cents) > 0

\* C2: every user's balance_cents is >= 0 in every reachable state.
C2_BalanceNonNegative == \A u \in Registered : balance[u] >= 0

\* C3: an investment by the listing's own seller is rejected and leaves the
\* balances, the listing and the positions unchanged.
C3_SelfInvestRejected ==
  [][ \A u \in UserIds, id \in 1..MaxDebts, amt \in BuyAmountInputs :
        (debt_buy(u, id, amt) /\ debts[id].seller_id = u)
          => UNCHANGED <<balance, debts, positions>>
    ]_vars

\* C4: a purchase by the product's own seller is rejected and leaves the
\* balances and the orders unchanged.
C4_SelfBuyRejected ==
  [][ \A u \in UserIds, id \in 1..MaxProducts :
        (product_buy(u, id) /\ products[id].seller_id = u)
          => /\ UNCHANGED <<balance, orders>>
             /\ flash' = "Cannot buy your own product"
    ]_vars

\* a seller who could afford the own product has just been turned away
C4_Witness ==
  /\ flash = "Cannot buy your own product"
  /\ \E id \in DOMAIN products :
       /\ products[id].price_cents > 0
       /\ balance[products[id].seller_id] >= products[id].price_cents

\* C5: when the acting user's balance is less than the amount, buy and invest
\* fail and change no balance, order, position or listing.
C5_InsufficientNoMutation ==
  [][ /\ \A u \in UserIds, id \in 1..MaxProducts :
           (product_buy(u, id) /\ balance[u] < products[id].price_cents)
             => /\ UNCHANGED <<balance, orders, positions, debts>>
                /\ flash' \in {"Insufficient balance", "Cannot buy your own product"}
      /\ \A u \in UserIds, id \in 1..MaxDebts, amt \in BuyAmountInputs :
           (debt_buy(u, id, amt) /\ amt.valid /\ balance[u] < ToCents(amt))
             => /\ UNCHANGED <<balance, orders, positions, debts>>
                /\ flash' = "Insufficient balance"
    ]_vars

\* the scenario: a product of 1200 cents, a buyer holding 1000 cents, and
\* the purchase has just been refused (no listing and no payout exists, so
\* the refusal is the purchase's)
C5_Witness ==
  /\ flash = "Insufficient balance"
  /\ debts = <<>> /\ payouts = <<>> /\ orders = <<>>
  /\ \E id \in DOMAIN products, u \in Registered :
       /\ products[id].price_cents = 1200
       /\ products[id].seller_id # u
       /\ balance[u] = 1000

\* C6: an investment of zero or a negative amount is rejected with no change
\* to the balances, the positions and the listing.
C6_NonPositiveRejected ==
  [][ \A u \in UserIds, id \in 1..MaxDebts, amt \in BuyAmountInputs :
        (debt_buy(u, id, amt) /\ amt.valid /\ ToCents(amt) <= 0)
          => UNCHANGED <<balance, debts, positions>>
    ]_vars

\* C7: total_invested_cents of a listing never decreases, and it equals the
\* sum of principal_cents over the listing's positions.
C7_TotalInvestedMonotone ==
  [][ \A id \in DOMAIN debts :
        /\ debts'[id].total_invested_cents >= debts[id].total_invested_cents
        /\ debts'[id].total_invested_cents = SumPrincipal(positions', id, Len(positions'))
    ]_vars

\* C8: a current rate within [0.0001, 1.0] is again within [0.0001, 1.0]
\* after an investment.
C8_RateStaysInRange ==
  [][ \A id \in DOMAIN debts :
        InRange(debts[id].current_rate_percent)
          => InRange(debts'[id].current_rate_percent)
    ]_vars

\* C9: for the same current rate (within [0.0001, 1.0]) and target, the
\* adjustment for the smaller funding ratio yields a rate at least as high
\* as the adjustment for the larger one.
C9_RateMonotoneInRatio ==
  (probe.done /\ InRange(probe.rate) /\ probe.total_a < probe.total_b)
    => probe.rate_a >= probe.rate_b

\* the bucket of the ratio total / target: 1 for ratio < 0.01, ..., 7 for
\* ratio >= 1.5
Thresholds == {1, 5, 20, 50, 100, 150}
Bucket(total, target) ==
  Cardinality({k \in Thresholds : ~RatioLess(total, target, k)}) + 1

SpecDelta == <<2000, 1200, 600, 200, -300, -1200, -3000>>
CodeDelta == <<8000, 4000, 1500, 500, -500, -2500, -5000>>

\* C10 as stated: the stored rate is the old rate plus the delta of the
\* table +0.20, +0.12, +0.06, +0.02, -0.03, -0.12, -0.30, on the ratio of
\* the post-update total to max(target, 1), clamped to [0.0001, 1.0].
C10_SpecStepTable ==
  [][ \A u \in UserIds, id \in 1..MaxDebts, amt \in BuyAmountInputs :
        (debt_buy(u, id, amt) /\ flash' = "Debt purchased")
          => LET b == Bucket(debts'[id].total_invested_cents,
                             Max(debts[id].target_amount_cents, 1))
             IN  debts'[id].current_rate_percent =
                   Max(RateFloor, Min(RateCap,
                       debts[id].current_rate_percent + SpecDelta[b]))
    ]_vars

\* C10 amended: the stored rate is the old rate plus the delta of the table
\* +0.80, +0.40, +0.15, +0.05, -0.05, -0.25, -0.50, on the ratio of the
\* post-update total to the target (1 when the target is 0), capped at 1.0
\* in the first three buckets and floored at 0.0001 in the other four.
C10_CodeStepTable ==
  [][ \A u \in UserIds, id \in 1..MaxDebts, amt \in BuyAmountInputs :
        (debt_buy(u, id, amt) /\ flash' = "Debt purchased")
          => LET t == debts[id].target_amount_cents
                 b == Bucket(debts'[id].total_invested_cents,
                             IF t = 0 THEN 1 ELSE t)
                 r == debts[id].current_rate_percent + CodeDelta[b]
             IN  debts'[id].current_rate_percent =
                   (IF b <= 3 THEN Min(RateCap, r) ELSE Max(RateFloor, r))
    ]_vars

\* the scenario: target 100000 cents, rate 0.10, a first investment of 500
\* cents has left the rate at 0.90
C10_Witness ==
  /\ flash = "Debt purchased"
  /\ Len(positions) = 1
  /\ positions[1].principal_cents = 500
  /\ LET d == debts[positions[1].debt_id]
     IN  /\ d.target_amount_cents = 100000
         /\ d.interest_rate_percent = 1000
         /\ d.total_invested_cents = 500
         /\ d.current_rate_percent = 9000

\* C14: delivering a checkout event whose id was delivered before credits
\* nobody again.
C14_WebhookIdempotent ==
  [][ \A event \in WebhookInputs :
        (stripe_webhook(event) /\ \E i \in DOMAIN events : events[i] = event.id)
          => balance' = balance
    ]_vars

RECURSIVE SumBalance(_, _)
SumBalance(bal, users) ==
  IF users = {} THEN 0
  ELSE LET u == CHOOSE v \in users : TRUE
       IN  bal[u] + SumBalance(bal, users \ {u})

RECURSIVE SumOrderCommission(_, _)
SumOrderCommission(ord, n) ==
  IF n = 0 THEN 0 ELSE SumOrderCommission(ord, n - 1) + ord[n].commission_cents

RECURSIVE SumPositionCommission(_, _)
SumPositionCommission(pos, n) ==
  IF n = 0 THEN 0
  ELSE SumPositionCommission(pos, n - 1)
         + calculate_commission_cents(pos[n].principal_cents)

RECURSIVE SumPayouts(_, _)
SumPayouts(pay, n) ==
  IF n = 0 THEN 0 ELSE SumPayouts(pay, n - 1) + pay[n].amount_cents

CommissionRetained ==
  SumOrderCommission(orders, Len(orders)) + SumPositionCommission(positions, Len(positions))

\* C15: the balances, the commissions retained by the settlements and the
\* amounts of the payout requests add up to the cents credited from outside.
C15_Conservation ==
  SumBalance(balance, Registered) + CommissionRetained + SumPayouts(payouts, Len(payouts))
    = external_cents

\* a settlement has retained a commission, a payout has been requested and
\* a registration has been credited
C15_Witness ==
  /\ CommissionRetained > 0
  /\ \E i \in DOMAIN payouts : payouts[i].amount_cents > 0
  /\ external_cents > AdminCredit

\* C16: product_buy, debt_buy and request_payout never raise the acting
\* user's balance and never lower another user's.
C16_SpendingNeverPays ==
  [][ \A u \in UserIds :
        ( \/ \E id \in 1..MaxProducts : product_buy(u, id)
          \/ \E id \in 1..MaxDebts, amt \in BuyAmountInputs : debt_buy(u, id, amt)
          \/ \E amt \in PayoutInputs : request_payout(u, amt) )
          => /\ balance'[u] <= balance[u]
             /\ \A v \in Registered \ {u} : balance'[v] >= balance[v]
    ]_vars

\* C11: the committed rows change only in the commit of one request, and
\* that commit writes all of the request's effects together: the buyer's
\* debit, the seller's credit of amount minus commission, exactly one new
\* DebtPosition (owner, listing, principal) with the listing's total raised
\* by the amount and its rate recomputed, or exactly one new Order; a
\* request that dies before its commit leaves no trace.  Where the rows the
\* session read are still the committed ones, the committed balances move
\* by exactly these amounts.
C11_AtomicSettlement ==
  [][ committed' # committed =>
        \E t \in Threads :
          LET u  == thr[t].user
              s  == thr[t].seller
              c  == thr[t].cents
              id == thr[t].id
              fresh == /\ balance[u] = thr[t].ubal + c
                       /\ s # u => balance[s] = thr[t].sbal
          IN  /\ thr[t].pc = "ready" /\ thr'[t].pc = "done"
              /\ products' = products
              /\ CASE thr[t].op = "debt_buy" ->
                        /\ positions' = Append(positions,
                             [owner_id |-> u, debt_id |-> id, principal_cents |-> c])
                        /\ debts'[id].total_invested_cents = thr[t].total + c
                        /\ debts'[id].current_rate_percent =
                             NextRate(thr[t].rate, thr[t].total + c, thr[t].target)
                        /\ balance'[u] = thr[t].ubal
                                           + (IF s = u THEN c - calculate_commission_cents(c) ELSE 0)
                        /\ s # u => balance'[s] = thr[t].sbal + c - calculate_commission_cents(c)
                        /\ fresh => Settled(u, s, c)
                        /\ orders' = orders /\ payouts' = payouts
                   [] thr[t].op = "product_buy" ->
                        /\ orders' = Append(orders,
                             [buyer_id |-> u, product_id |-> id, amount_cents |-> c,
                              commission_cents |-> calculate_commission_cents(c)])
                        /\ balance'[u] = thr[t].ubal
                        /\ balance'[s] = thr[t].sbal + c - calculate_commission_cents(c)
                        /\ fresh => Settled(u, s, c)
                        /\ debts' = debts /\ positions' = positions /\ payouts' = payouts
                   [] thr[t].op = "request_payout" ->
                        /\ Len(payouts') = Len(payouts) + 1
                        /\ balance'[u] = thr[t].ubal
                        /\ debts' = debts /\ positions' = positions /\ orders' = orders
    ]_vars

\* one thread has committed an investment and the other a purchase, each
\* after flushing its debit
C11_Witness ==
  /\ Len(positions) = 1 /\ Len(orders) = 1
  /\ \E t1, t2 \in Threads :
       /\ thr[t1].pc = "done" /\ thr[t1].result = "Debt purchased"
       /\ thr[t2].pc = "done" /\ thr[t2].result = "Purchase complete"
       /\ thr[t1].user # thr[t1].seller

\* C12: when two concurrent investments in one listing (by users other than
\* its seller) both succeed, the listing's total has grown by the sum of the
\* two amounts and the seller's balance by the sum of the two credits.
C12_NoLostUpdate ==
  \A t1, t2 \in Threads :
    ( /\ t1 # t2
      /\ thr[t1].op = "debt_buy" /\ thr[t2].op = "debt_buy"
      /\ thr[t1].id = thr[t2].id
      /\ thr[t1].pc = "done" /\ thr[t1].result = "Debt purchased"
      /\ thr[t2].pc = "done" /\ thr[t2].result = "Debt purchased"
      /\ thr[t1].user # thr[t1].seller /\ thr[t2].user # thr[t2].seller )
    => /\ debts[thr[t1].id].total_invested_cents = thr[t1].cents + thr[t2].cents
       /\ balance[thr[t1].seller] =
            RegisterCredit + seller_receive(thr[t1].cents) + seller_receive(thr[t2].cents)

RECURSIVE SpentBy(_)
\* the amounts of the requests of the threads ts that succeeded
SpentBy(ts) ==
  IF ts = {} THEN 0
  ELSE LET t == CHOOSE x \in ts : TRUE
       IN  (IF thr[t].pc = "done"
               /\ thr[t].result \in {"Debt purchased", "Purchase complete", "Payout requested"}
              THEN thr[t].cents ELSE 0)
             + SpentBy(ts \ {t})

\* C13: when both threads have handled a debiting request of the same user
\* (who sells nothing), the user's balance is >= 0 and equals the initial
\* balance minus the amounts of the requests that succeeded; so two
\* requests never both succeed on a balance that covers only one.
C13_NoDoubleSpend ==
  \A u \in UserIds :
    ( /\ \A t \in Threads : thr[t].pc \in {"done", "failed"} /\ thr[t].user = u
      /\ \A t \in Threads : thr[t].seller # u )
    => /\ balance[u] >= 0
       /\ balance[u] = (IF u = AdminId THEN AdminCredit ELSE RegisterCredit) - SpentBy(Threads)
====
